---- MODULE Spec2Model ----
(***************************************************************************)
(* Model of ur5e_sdg_script.py: the dataset-generation script that         *)
(* launches the simulator, composes the scene, registers the randomization *)
(* rules under a frame trigger, attaches the writer and drives the         *)
(* replicator orchestrator with a tick-driven poll loop.                   *)
(*                                                                         *)
(* The script's own control flow (module level, main, run_orchestrator,    *)
(* the try/except/finally block) is translated statement by statement.     *)
(* The replicator backend it calls (orchestrator, frame trigger, rule      *)
(* graph, writer, backend dispatch) is a library outside the repository;   *)
(* its behaviour is taken from the design document (sections 3, 4.3, 4.4,  *)
(* 4.5, 5 and 6) and those definitions are marked as such in the map.      *)
(*                                                                         *)
(* Abstractions: lengths are integers in units of 0.03 m (positions of     *)
(* object instances in units of 0.03/1625 m, so that a rotated offset is   *)
(* an integer); a continuous uniform distribution is represented by the    *)
(* corner points of its range, each coordinate drawn on its own; attribute *)
(* values that no property reads (colours, intensity, camera pose,         *)
(* instance rotation/scale) are reduced to the fact that the rule ran,     *)
(* which execLog records.                                                  *)
(***************************************************************************)
EXTENDS Integers, Sequences, FiniteSets, TLC

\* ---------------------------------------------------------------- bounds
MaxFrames == 2
MaxStartDelay == 1
MaxInstances == 1
MaxRetries == 1
MaxExitCode == 3

\* ------------------------------------------------------ program constants
\* for i in range(100): simulation_app.update()
WarmupUpdates == 100
\* rep.create.plane(scale=(0.35, 0.5, 1)): half extents 0.175 m and 0.25 m,
\* rounded down to units of 0.03 m.
HalfExtentX == 5
HalfExtentY == 8
\* rep.distribution.uniform((0, 0, -2), (0, 0, 2)): a rotation about the
\* surface normal by at most 2 degrees.  The rotation of 2 degrees is
\* represented by the rational rotation with cosine 1624/1625 and sine
\* 57/1625 (2.01 degrees), so that rotating is exact integer arithmetic.
RotScale == 1625
RotCos == 1624
RotSin == 57

VARIABLES
  pc,            \* the script's position
  retpc,         \* where the script continues when update() returns
  warm,          \* loop variable i of the warm-up loop
  numFrames,     \* CONFIG["num_frames"]
  fault,         \* NoFault, or the exception in flight / handled
  logged,        \* number of carb.log_error calls
  exitCode,      \* -1 while running, then the interpreter's exit status
  closeCount,    \* number of simulation_app.close() calls
  runCount,      \* number of rep.orchestrator.run() calls
  stopCount,     \* number of rep.orchestrator.stop() calls
  events,        \* orchestration events of the run, in order
  mainCalled,    \* the try block has been entered and main() called
  camera, tray, plane,   \* scene entities created by the script
  registry,      \* rules registered under the frame trigger, in order
  triggerFrames, \* num_frames given to the frame trigger (-1: no trigger)
  writerAttached,
  bstate,        \* backend run state
  isStarted,     \* rep.orchestrator.get_is_started()
  startDelay,    \* ticks the backend still needs before it reports started
  frame,         \* frames consumed by the backend in this run
  rulePos,       \* 0 outside a frame cycle, else index of the next rule
  frameSample,   \* samples drawn in this frame, by distribution instance
  execLog,       \* names of the rules executed in the current frame
  renderLog,     \* execLog as it stood when the last frame was rendered
  insts,         \* object instances, by asset
  resamples,     \* scatter positions re-drawn because of a collision
  pending,       \* frame records issued to the writer, not yet on disk
  written        \* frame indices written to disk, in order

scriptVars == <<pc, retpc, warm, numFrames, fault, logged, exitCode, closeCount,
                runCount, stopCount, events, mainCalled>>
sceneVars == <<camera, tray, plane, registry, triggerFrames, writerAttached>>
backendVars == <<bstate, isStarted, startDelay, frame, rulePos, frameSample,
                 execLog, renderLog, insts, resamples, pending, written>>
vars == <<scriptVars, sceneVars, backendVars>>

\* ------------------------------------------------------------ value sets
Origin == <<0, 0>>
\* rep.create.plane(..., position=(0.6, 0, 1.12))
NominalPlanePos == <<20, 0>>
\* rep.distribution.uniform((0.57, -0.03, 1.095), (0.63, 0.03, 1.095))
PositionSamples == {<<19, -1>>, <<19, 1>>, <<21, -1>>, <<21, 1>>}
\* rep.distribution.uniform((0, 0, -2), (0, 0, 2))
RotationSamples == {-2, 2}
\* points of the scatter surface in its own frame, relative to its centre:
\* each coordinate is drawn on its own
ScatterSamples == {<<x, y>> : x \in {-HalfExtentX, HalfExtentX},
                              y \in {-HalfExtentY, HalfExtentY}}

\* Samples drawn so far in a frame: pairs <<distribution instance, value>>.
NoSamples == [pos |-> {}, rot |-> {}]

NoEntity == [exists |-> FALSE, pos |-> Origin, rot |-> 0]
Entity(p) == [exists |-> TRUE, pos |-> p, rot |-> 0]

CubeLabel == <<"class", "cube">>
CylinderLabel == <<"class", "cylinder">>
NoLabel == <<"", "">>
Assets == {"cube", "cylinder"}

\* A rule registered under the frame trigger.  kind: "attribute" (a colour,
\* an attribute or a pose of a fixed entity whose value nothing reads),
\* "pose" (tray or plane, from distribution instances), "instantiate",
\* "inst_attr" (pose/scale/colour of a block's instances), "scatter".
Rule(name, kind, target, position, rotation, semantics, check) ==
  [name |-> name, kind |-> kind, target |-> target, position |-> position,
   rotation |-> rotation, semantics |-> semantics, check |-> check]

\* Statements of main() inside the try block, where a call may raise.
TryPcs == {"open_stage", "warmup", "update", "create_camera", "create_tray",
           "create_plane", "reg_trigger", "reg_ground", "reg_light_color",
           "reg_light_intensity", "reg_camera", "reg_tray_pose",
           "reg_plane_pose", "reg_cube_instantiate", "reg_cube_pose",
           "reg_cube_scatter", "reg_cube_color", "reg_cylinder_instantiate",
           "reg_cylinder_pose", "reg_cylinder_scatter", "reg_cylinder_color",
           "setup_writer", "run", "wait_started", "wait_stopped",
           "wait_until_done", "stop", "final_update"}

\* An exception: its class and, for a SystemExit, its code.
Fault(class, code) == [class |-> class, code |-> code]
NoFault == Fault("none", 0)

\* What a call may raise: an Exception subclass; SystemExit(n) for an
\* integer n (SystemExit() counts as SystemExit(0)); KeyboardInterrupt; or
\* "BaseException", any other exception that is not an Exception and ends
\* the process with status 1 (GeneratorExit, asyncio.CancelledError,
\* SystemExit("message")).
FaultKinds ==
  {Fault(c, 0) : c \in {"Exception", "KeyboardInterrupt", "BaseException"}}
    \cup {Fault("SystemExit", n) : n \in 0..MaxExitCode}

\* The process status when exception k ends the interpreter: a traceback
\* gives 1, SystemExit(n) its code in one byte, KeyboardInterrupt death by
\* SIGINT.
UncaughtStatus(k) ==
  CASE k.class = "SystemExit" -> k.code % 256
    [] k.class = "KeyboardInterrupt" -> -2
    [] OTHER -> 1

\* The process status after the try statement: an exception the handler
\* caught leaves none in flight and the script falls off its end.
StatusAfterTry(k) ==
  IF k.class \in {"none", "Exception"} THEN 0 ELSE UncaughtStatus(k)

\* ------------------------------------------------------------------ Init
\* The state right after simulation_app = SimulationApp(launch_config=CONFIG).
Init ==
  /\ pc = "module_setup"
  /\ retpc = "none"
  /\ warm = 0
  /\ numFrames \in 0..MaxFrames
  /\ fault = NoFault
  /\ logged = 0
  /\ exitCode = -1
  /\ closeCount = 0
  /\ runCount = 0
  /\ stopCount = 0
  /\ events = <<>>
  /\ mainCalled = FALSE
  /\ camera = FALSE
  /\ tray = NoEntity
  /\ plane = NoEntity
  /\ registry = <<>>
  /\ triggerFrames = -1
  /\ writerAttached = FALSE
  /\ bstate = "Idle"
  /\ isStarted = FALSE
  /\ startDelay = 0
  /\ frame = 0
  /\ rulePos = 0
  /\ frameSample = NoSamples
  /\ execLog = <<>>
  /\ renderLog = <<>>
  /\ insts = [a \in Assets |-> <<>>]
  /\ resamples = 0
  /\ pending = <<>>
  /\ written = <<>>

\* ------------------------------------------------- script: module level
\* Lines 25-35: the omni imports and rep.settings.carb_settings(...).
ModuleSetup ==
  /\ pc = "module_setup"
  /\ pc' = "try"
  /\ UNCHANGED <<retpc, warm, numFrames, fault, logged, exitCode, closeCount,
                 runCount, stopCount, events, mainCalled>>
  /\ UNCHANGED <<sceneVars, backendVars>>

\* An import or the settings call raises: these statements are outside the
\* try block, so the exception ends the interpreter without close().
ModuleFault ==
  /\ pc = "module_setup"
  /\ \E k \in FaultKinds : fault' = k /\ exitCode' = UncaughtStatus(k)
  /\ pc' = "exited"
  /\ UNCHANGED <<retpc, warm, numFrames, logged, closeCount,
                 runCount, stopCount, events, mainCalled>>
  /\ UNCHANGED <<sceneVars, backendVars>>

\* A script step that only moves on to the next statement.
Goto(from, to) ==
  /\ pc = from
  /\ pc' = to
  /\ UNCHANGED <<retpc, warm, numFrames, fault, logged, exitCode, closeCount,
                 runCount, stopCount, events, mainCalled>>

\* simulation_app.update(): control passes to the simulator for one tick.
CallUpdate(from, to) ==
  /\ pc = from
  /\ pc' = "update"
  /\ retpc' = to

\* ------------------------------------------------------- script: main()
\* if __name__ == "__main__": try: main()
EnterMain ==
  /\ pc = "try"
  /\ pc' = "open_stage"
  /\ mainCalled' = TRUE
  /\ UNCHANGED <<retpc, warm, numFrames, fault, logged, exitCode, closeCount,
                 runCount, stopCount, events>>
  /\ UNCHANGED <<sceneVars, backendVars>>

\* open_stage(ENV_URL); stage = get_current_stage()
OpenStage ==
  /\ Goto("open_stage", "warmup")
  /\ UNCHANGED <<sceneVars, backendVars>>

\* for i in range(100): simulation_app.update()
WarmupUpdate ==
  /\ warm < WarmupUpdates
  /\ CallUpdate("warmup", "warmup")
  /\ warm' = warm + 1
  /\ UNCHANGED <<numFrames, fault, logged, exitCode, closeCount,
                 runCount, stopCount, events, mainCalled>>
  /\ UNCHANGED <<sceneVars, backendVars>>

WarmupDone ==
  /\ warm = WarmupUpdates
  /\ Goto("warmup", "create_camera")
  /\ UNCHANGED <<sceneVars, backendVars>>

\* cam = rep.create.camera(...)
CreateCamera ==
  /\ Goto("create_camera", "create_tray")
  /\ camera' = TRUE
  /\ UNCHANGED <<tray, plane, registry, triggerFrames, writerAttached>>
  /\ UNCHANGED backendVars

\* tray = rep.create.from_usd(TRAY_URL)
CreateTray ==
  /\ Goto("create_tray", "create_plane")
  /\ tray' = Entity(Origin)
  /\ UNCHANGED <<camera, plane, registry, triggerFrames, writerAttached>>
  /\ UNCHANGED backendVars

\* plane = rep.create.plane(scale=(0.35, 0.5, 1), visible=False, position=(0.6, 0, 1.12))
CreatePlane ==
  /\ Goto("create_plane", "reg_trigger")
  /\ plane' = Entity(NominalPlanePos)
  /\ UNCHANGED <<camera, tray, registry, triggerFrames, writerAttached>>
  /\ UNCHANGED backendVars

\* A registration step: appends rules to the trigger's rule list.
Register(from, to, rules) ==
  /\ Goto(from, to)
  /\ registry' = registry \o rules
  /\ UNCHANGED <<camera, tray, plane, triggerFrames, writerAttached>>
  /\ UNCHANGED backendVars

\* with rep.trigger.on_frame(num_frames=CONFIG["num_frames"]):
RegisterTrigger ==
  /\ Goto("reg_trigger", "reg_ground")
  /\ triggerFrames' = numFrames
  /\ UNCHANGED <<camera, tray, plane, registry, writerAttached>>
  /\ UNCHANGED backendVars

\* with rep.get.prims(path_pattern="GroundPlane"): rep.randomizer.color(...)
RegisterGround ==
  Register("reg_ground", "reg_light_color",
    << Rule("ground_color", "attribute", "GroundPlane", "", "", NoLabel, FALSE) >>)

\* with rep.get.prims(path_pattern="DomeLight"): rep.modify.attribute("color", ...)
RegisterLightColor ==
  Register("reg_light_color", "reg_light_intensity",
    << Rule("light_color", "attribute", "DomeLight", "", "", NoLabel, FALSE) >>)

\* rep.modify.attribute("intensity", ...)
RegisterLightIntensity ==
  Register("reg_light_intensity", "reg_camera",
    << Rule("light_intensity", "attribute", "DomeLight", "", "", NoLabel, FALSE) >>)

\* with cam: rep.modify.pose(position=..., rotation=...)
RegisterCamera ==
  Register("reg_camera", "reg_tray_pose",
    << Rule("camera_pose", "attribute", "camera", "", "", NoLabel, FALSE) >>)

\* random_position / random_rotation are created once;
\* with tray: rep.modify.pose(position=random_position, rotation=random_rotation)
RegisterTrayPose ==
  Register("reg_tray_pose", "reg_plane_pose",
    << Rule("tray_pose", "pose", "tray", "random_position", "random_rotation",
            NoLabel, FALSE) >>)

\* The plane given distribution instances of its own instead of the shared ones.
RegisterPlanePose_OwnDistributions ==
  Register("reg_plane_pose", "reg_cube_instantiate",
    << Rule("plane_pose", "pose", "plane", "plane_position", "plane_rotation",
            NoLabel, FALSE) >>)

\* with plane: rep.modify.pose(position=random_position, rotation=random_rotation)
RegisterPlanePose ==
  Register("reg_plane_pose", "reg_cube_instantiate",
    << Rule("plane_pose", "pose", "plane", "random_position", "random_rotation",
            NoLabel, FALSE) >>)

\* with rep.randomizer.instantiate(paths=[CUBES[0]], size=..., semantics=[("class", "cube")]):
RegisterCubeInstantiate ==
  Register("reg_cube_instantiate", "reg_cube_pose",
    << Rule("cube_instantiate", "instantiate", "cube", "", "", CubeLabel, FALSE) >>)

\* rep.modify.pose(rotation=..., scale=...)
RegisterCubePose ==
  Register("reg_cube_pose", "reg_cube_scatter",
    << Rule("cube_pose", "inst_attr", "cube", "", "", NoLabel, FALSE) >>)

\* The block registered without its scatter_2d call.
RegisterCubeScatter_Missing ==
  Register("reg_cube_scatter", "reg_cube_color", << >>)

\* rep.randomizer.scatter_2d(surface_prims=plane, check_for_collisions=False)
RegisterCubeScatter ==
  Register("reg_cube_scatter", "reg_cube_color",
    << Rule("cube_scatter", "scatter", "cube", "", "", NoLabel, FALSE) >>)

\* rep.randomizer.color(...)
RegisterCubeColor ==
  Register("reg_cube_color", "reg_cylinder_instantiate",
    << Rule("cube_color", "inst_attr", "cube", "", "", NoLabel, FALSE) >>)

\* The cylinder block registered with the cube block's semantics.
RegisterCylinderInstantiate_CubeLabel ==
  Register("reg_cylinder_instantiate", "reg_cylinder_pose",
    << Rule("cylinder_instantiate", "instantiate", "cylinder", "", "", CubeLabel, FALSE) >>)

\* with rep.randomizer.instantiate(paths=[CYLINDERS[0]], size=..., semantics=[("class", "cylinder")]):
RegisterCylinderInstantiate ==
  Register("reg_cylinder_instantiate", "reg_cylinder_pose",
    << Rule("cylinder_instantiate", "instantiate", "cylinder", "", "", CylinderLabel, FALSE) >>)

\* rep.modify.pose(rotation=..., scale=...)
RegisterCylinderPose ==
  Register("reg_cylinder_pose", "reg_cylinder_scatter",
    << Rule("cylinder_pose", "inst_attr", "cylinder", "", "", NoLabel, FALSE) >>)

\* rep.randomizer.scatter_2d(surface_prims=plane, check_for_collisions=False)
RegisterCylinderScatter ==
  Register("reg_cylinder_scatter", "reg_cylinder_color",
    << Rule("cylinder_scatter", "scatter", "cylinder", "", "", NoLabel, FALSE) >>)

\* The colour rule registered a second time.
RegisterCylinderColor_Twice ==
  Register("reg_cylinder_color", "setup_writer",
    << Rule("cylinder_color", "inst_attr", "cylinder", "", "", NoLabel, FALSE),
       Rule("cylinder_color", "inst_attr", "cylinder", "", "", NoLabel, FALSE) >>)

\* rep.randomizer.color(...)
RegisterCylinderColor ==
  Register("reg_cylinder_color", "setup_writer",
    << Rule("cylinder_color", "inst_attr", "cylinder", "", "", NoLabel, FALSE) >>)

\* The writer initialized but the render product never attached to it.
SetupWriter_NoAttach ==
  /\ Goto("setup_writer", "run")
  /\ UNCHANGED sceneVars
  /\ UNCHANGED backendVars

\* writer = rep.WriterRegistry.get("KittiWriter"); writer.initialize(...);
\* render_product = rep.create.render_product(cam, RESOLUTION); writer.attach(render_product)
SetupWriter ==
  /\ Goto("setup_writer", "run")
  /\ writerAttached' = TRUE
  /\ UNCHANGED <<camera, tray, plane, registry, triggerFrames>>
  /\ UNCHANGED backendVars

\* ------------------------------------------- script: run_orchestrator()
\* rep.orchestrator.run()
Run ==
  /\ pc = "run"
  /\ pc' = "wait_started"
  /\ runCount' = runCount + 1
  /\ events' = Append(events, "run")
  /\ bstate' = "Requested"
  /\ \E d \in 0..MaxStartDelay : startDelay' = d
  /\ frame' = 0
  /\ UNCHANGED <<retpc, warm, numFrames, fault, logged, exitCode, closeCount,
                 stopCount, mainCalled>>
  /\ UNCHANGED sceneVars
  /\ UNCHANGED <<isStarted, rulePos, frameSample, execLog, renderLog, insts,
                 resamples, pending, written>>

\* A poll iteration: the loop condition held, the body calls update().
PollTick(at) ==
  /\ CallUpdate(at, at)
  /\ UNCHANGED <<warm, numFrames, fault, logged, exitCode, closeCount,
                 runCount, stopCount, events, mainCalled>>
  /\ UNCHANGED <<sceneVars, backendVars>>

\* The loop condition failed: the script leaves the loop.
PollExit(at, to, event) ==
  /\ pc = at
  /\ pc' = to
  /\ events' = Append(events, event)
  /\ UNCHANGED <<retpc, warm, numFrames, fault, logged, exitCode, closeCount,
                 runCount, stopCount, mainCalled>>
  /\ UNCHANGED <<sceneVars, backendVars>>

\* while not rep.orchestrator.get_is_started(): simulation_app.update()
WaitStartedTick == ~isStarted /\ PollTick("wait_started")

WaitStartedExit == isStarted /\ PollExit("wait_started", "wait_stopped", "started_seen")

\* while rep.orchestrator.get_is_started(): simulation_app.update()
WaitStoppedTick == isStarted /\ PollTick("wait_stopped")

\* The second loop left without looking at the signal.
WaitStoppedExit_Unchecked == PollExit("wait_stopped", "wait_until_done", "stopped_seen")

WaitStoppedExit == ~isStarted /\ PollExit("wait_stopped", "wait_until_done", "stopped_seen")

\* rep.BackendDispatch.wait_until_done(): blocks while writes are in flight.
WaitUntilDone ==
  /\ pending = <<>>
  /\ PollExit("wait_until_done", "stop", "drained")

\* rep.orchestrator.stop() issued twice.
Stop_Twice ==
  /\ pc = "stop"
  /\ pc' = "final_update"
  /\ stopCount' = stopCount + 2
  /\ events' = events \o <<"stop", "stop">>
  /\ bstate' = "Stopped"
  /\ isStarted' = FALSE
  /\ UNCHANGED <<retpc, warm, numFrames, fault, logged, exitCode, closeCount,
                 runCount, mainCalled>>
  /\ UNCHANGED sceneVars
  /\ UNCHANGED <<startDelay, frame, rulePos, frameSample, execLog, renderLog,
                 insts, resamples, pending, written>>

\* rep.orchestrator.stop()
Stop ==
  /\ pc = "stop"
  /\ pc' = "final_update"
  /\ stopCount' = stopCount + 1
  /\ events' = Append(events, "stop")
  /\ bstate' = "Stopped"
  /\ isStarted' = FALSE
  /\ UNCHANGED <<retpc, warm, numFrames, fault, logged, exitCode, closeCount,
                 runCount, mainCalled>>
  /\ UNCHANGED sceneVars
  /\ UNCHANGED <<startDelay, frame, rulePos, frameSample, execLog, renderLog,
                 insts, resamples, pending, written>>

\* main(): run_orchestrator() has returned; simulation_app.update()
FinalUpdate ==
  /\ CallUpdate("final_update", "main_return")
  /\ events' = Append(events, "final_tick")
  /\ UNCHANGED <<warm, numFrames, fault, logged, exitCode, closeCount,
                 runCount, stopCount, mainCalled>>
  /\ UNCHANGED <<sceneVars, backendVars>>

\* main() returns to the try block.
MainReturn ==
  /\ Goto("main_return", "finally")
  /\ UNCHANGED <<sceneVars, backendVars>>

\* ------------------------------------------ script: try/except/finally
\* A call made by main() raises.  "except Exception" catches an Exception;
\* SystemExit, KeyboardInterrupt and the like are not Exceptions and skip
\* the handler.
RaiseFault ==
  /\ pc \in TryPcs
  /\ \E k \in FaultKinds :
       /\ fault' = k
       /\ pc' = IF k.class = "Exception" THEN "except" ELSE "finally"
  /\ UNCHANGED <<retpc, warm, numFrames, logged, exitCode, closeCount,
                 runCount, stopCount, events, mainCalled>>
  /\ UNCHANGED <<sceneVars, backendVars>>

\* except Exception as e: carb.log_error(...); traceback.print_exc()
ExceptHandler ==
  /\ pc = "except"
  /\ pc' = "finally"
  /\ logged' = logged + 1
  /\ UNCHANGED <<retpc, warm, numFrames, fault, exitCode, closeCount,
                 runCount, stopCount, events, mainCalled>>
  /\ UNCHANGED <<sceneVars, backendVars>>

\* finally: simulation_app.close().  The script ends; an exception the
\* handler did not catch is re-raised and decides the process status,
\* otherwise the script falls off its end and the status is 0.
Finally ==
  /\ pc = "finally"
  /\ pc' = "exited"
  /\ closeCount' = closeCount + 1
  /\ exitCode' = StatusAfterTry(fault)
  /\ UNCHANGED <<retpc, warm, numFrames, fault, logged,
                 runCount, stopCount, events, mainCalled>>
  /\ UNCHANGED <<sceneVars, backendVars>>

\* ------------------------------------------------ backend: orchestrator
\* The backend lives inside the simulator process: it runs only while the
\* simulator is open.
SimulatorOpen == closeCount = 0

\* update() returns to the script.
Return ==
  /\ pc' = retpc
  /\ UNCHANGED <<retpc, warm, numFrames, fault, logged, exitCode, closeCount,
                 runCount, stopCount, events, mainCalled>>

InTick == SimulatorOpen /\ pc = "update"

\* A tick with no run active.
TickIdle ==
  /\ InTick /\ rulePos = 0
  /\ bstate \in {"Idle", "Finished", "Stopped"}
  /\ Return
  /\ UNCHANGED <<sceneVars, backendVars>>

\* A tick after run(): the backend raises the has-started signal once its
\* start-up has completed.
TickStarting ==
  /\ InTick /\ rulePos = 0
  /\ bstate = "Requested"
  /\ IF startDelay > 0
       THEN /\ startDelay' = startDelay - 1
            /\ UNCHANGED <<bstate, isStarted>>
       ELSE /\ bstate' = "Running"
            /\ isStarted' = TRUE
            /\ UNCHANGED startDelay
  /\ Return
  /\ UNCHANGED sceneVars
  /\ UNCHANGED <<frame, rulePos, frameSample, execLog, renderLog, insts,
                 resamples, pending, written>>

\* A tick of a running trigger with frames left: the frame cycle begins.
TickBeginFrame ==
  /\ InTick /\ rulePos = 0
  /\ bstate = "Running"
  /\ frame < triggerFrames
  /\ rulePos' = 1
  /\ execLog' = <<>>
  /\ frameSample' = NoSamples
  /\ UNCHANGED scriptVars
  /\ UNCHANGED sceneVars
  /\ UNCHANGED <<bstate, isStarted, startDelay, frame, renderLog, insts,
                 resamples, pending, written>>

\* A tick of a running trigger with all frames consumed: the run ends and
\* the signal drops.
TickFinish ==
  /\ InTick /\ rulePos = 0
  /\ bstate = "Running"
  /\ frame >= triggerFrames
  /\ bstate' = "Finished"
  /\ isStarted' = FALSE
  /\ Return
  /\ UNCHANGED sceneVars
  /\ UNCHANGED <<startDelay, frame, rulePos, frameSample, execLog, renderLog,
                 insts, resamples, pending, written>>

\* ------------------------------------------------- backend: rule graph
InFrame == InTick /\ rulePos \in 1..Len(registry)

CurrentRule == registry[rulePos]

\* The next rule of the frame has run.
RuleDone ==
  /\ rulePos' = rulePos + 1
  /\ execLog' = Append(execLog, CurrentRule.name)
  /\ UNCHANGED scriptVars

\* Values already drawn in this frame from distribution instance id.
SampleOf(drawn, id) == {p[2] : p \in {q \in drawn : q[1] = id}}

\* A rule writing an attribute whose value nothing reads.
RuleAttribute ==
  /\ InFrame
  /\ CurrentRule.kind \in {"attribute", "inst_attr"}
  /\ RuleDone
  /\ UNCHANGED sceneVars
  /\ UNCHANGED <<bstate, isStarted, startDelay, frame, frameSample, renderLog,
                 insts, resamples, pending, written>>

\* rep.modify.pose on the tray or the plane: a distribution instance yields
\* one value per frame, which every rule reading that instance receives.
RulePose ==
  /\ InFrame
  /\ CurrentRule.kind = "pose"
  /\ \E p \in PositionSamples, q \in RotationSamples :
       /\ SampleOf(frameSample.pos, CurrentRule.position) \subseteq {p}
       /\ SampleOf(frameSample.rot, CurrentRule.rotation) \subseteq {q}
       /\ frameSample' =
            [pos |-> frameSample.pos \cup {<<CurrentRule.position, p>>},
             rot |-> frameSample.rot \cup {<<CurrentRule.rotation, q>>}]
       /\ IF CurrentRule.target = "tray"
            THEN /\ tray' = [tray EXCEPT !.pos = p, !.rot = q]
                 /\ UNCHANGED plane
            ELSE /\ plane' = [plane EXCEPT !.pos = p, !.rot = q]
                 /\ UNCHANGED tray
  /\ RuleDone
  /\ UNCHANGED <<camera, registry, triggerFrames, writerAttached>>
  /\ UNCHANGED <<bstate, isStarted, startDelay, frame, renderLog,
                 insts, resamples, pending, written>>

\* rep.randomizer.instantiate: the block's instances for this frame, each
\* tagged with the block's semantics.
RuleInstantiate ==
  /\ InFrame
  /\ CurrentRule.kind = "instantiate"
  /\ \E k \in 0..MaxInstances :
       insts' = [insts EXCEPT ![CurrentRule.target] =
                   [i \in 1..k |-> [label |-> CurrentRule.semantics,
                                     pos |-> Origin, scattered |-> FALSE]]]
  /\ RuleDone
  /\ UNCHANGED sceneVars
  /\ UNCHANGED <<bstate, isStarted, startDelay, frame, frameSample, renderLog,
                 resamples, pending, written>>

\* Two instances at the same position.
Overlap(all) ==
  \E a, b \in Assets : \E i \in 1..Len(all[a]), j \in 1..Len(all[b]) :
    /\ <<a, i>> # <<b, j>>
    /\ all[a][i].pos = all[b][j].pos

\* Cosine and sine of a rotation by deg degrees, times RotScale.
CosOf(deg) == IF deg = 0 THEN RotScale ELSE RotCos

SinOf(deg) == CASE deg = 0 -> 0 [] deg > 0 -> RotSin [] OTHER -> -RotSin

\* The point v of the surface's own frame in world coordinates: turned by
\* the surface's rotation and moved to its position (units of 1/RotScale).
ToWorld(v, surface) ==
  << RotScale * surface.pos[1] + CosOf(surface.rot) * v[1] - SinOf(surface.rot) * v[2],
     RotScale * surface.pos[2] + SinOf(surface.rot) * v[1] + CosOf(surface.rot) * v[2] >>

\* rep.randomizer.scatter_2d(surface_prims=plane, check_for_collisions=...):
\* every instance of the block gets a point drawn over the surface's extent
\* and converted into the frame of the surface as posed now.
RuleScatter ==
  /\ InFrame
  /\ CurrentRule.kind = "scatter"
  /\ \E offs \in [1..Len(insts[CurrentRule.target]) -> ScatterSamples],
        extra \in 0..(IF CurrentRule.check THEN MaxRetries ELSE 0) :
       /\ insts' = [insts EXCEPT ![CurrentRule.target] =
                      [i \in 1..Len(insts[CurrentRule.target]) |->
                         [insts[CurrentRule.target][i] EXCEPT
                            !.pos = ToWorld(offs[i], plane),
                            !.scattered = TRUE]]]
       /\ (CurrentRule.check /\ extra < MaxRetries) => ~Overlap(insts')
       /\ resamples' = resamples + extra
  /\ RuleDone
  /\ UNCHANGED sceneVars
  /\ UNCHANGED <<bstate, isStarted, startDelay, frame, frameSample, renderLog,
                 pending, written>>

\* All rules of the frame have run: the frame is rendered and its record is
\* handed to the attached writer; update() returns.
TickRender ==
  /\ InTick
  /\ rulePos = Len(registry) + 1
  /\ renderLog' = execLog
  /\ pending' = IF writerAttached THEN Append(pending, frame) ELSE pending
  /\ frame' = frame + 1
  /\ rulePos' = 0
  /\ Return
  /\ UNCHANGED sceneVars
  /\ UNCHANGED <<bstate, isStarted, startDelay, frameSample, execLog, insts,
                 resamples, written>>

\* ----------------------------------------------------- backend: writer
\* The writer's asynchronous work: the oldest record in flight reaches disk.
BackendWrite ==
  /\ SimulatorOpen
  /\ pending # <<>>
  /\ written' = Append(written, Head(pending))
  /\ pending' = Tail(pending)
  /\ UNCHANGED scriptVars
  /\ UNCHANGED sceneVars
  /\ UNCHANGED <<bstate, isStarted, startDelay, frame, rulePos, frameSample,
                 execLog, renderLog, insts, resamples>>

\* ------------------------------------------------------- specification
Next ==
  \/ ModuleSetup \/ ModuleFault \/ EnterMain \/ OpenStage
  \/ WarmupUpdate \/ WarmupDone
  \/ CreateCamera \/ CreateTray \/ CreatePlane
  \/ RegisterTrigger \/ RegisterGround
  \/ RegisterLightColor \/ RegisterLightIntensity \/ RegisterCamera
  \/ RegisterTrayPose \/ RegisterPlanePose
  \/ RegisterCubeInstantiate \/ RegisterCubePose
  \/ RegisterCubeScatter \/ RegisterCubeColor
  \/ RegisterCylinderInstantiate \/ RegisterCylinderPose
  \/ RegisterCylinderScatter \/ RegisterCylinderColor
  \/ SetupWriter
  \/ Run \/ WaitStartedTick \/ WaitStartedExit
  \/ WaitStoppedTick \/ WaitStoppedExit
  \/ WaitUntilDone \/ Stop \/ FinalUpdate \/ MainReturn
  \/ RaiseFault \/ ExceptHandler \/ Finally
  \/ TickIdle \/ TickStarting \/ TickBeginFrame \/ TickFinish
  \/ RuleAttribute \/ RulePose \/ RuleInstantiate \/ RuleScatter
  \/ TickRender \/ BackendWrite

Spec == Init /\ [][Next]_vars

\* ---------------------------------------------------------- properties
Occurred(e) == \E i \in 1..Len(events) : events[i] = e

InLog(log, n) == \E i \in 1..Len(log) : log[i] = n

IsPrefix(s, t) == Len(s) <= Len(t) /\ \A i \in 1..Len(s) : s[i] = t[i]

\* The frame indices 0..n-1 in increasing order.
FrameIndices(n) == [i \in 1..n |-> i - 1]

\* main() has returned normally to the try block.
MainReturned ==
  \/ pc = "main_return"
  \/ pc \in {"finally", "exited"} /\ fault = NoFault

\* All rules of the current frame have run and the frame is being rendered.
AtRender == registry # <<>> /\ rulePos = Len(registry) + 1

AllInstances == {<<a, i>> : a \in Assets, i \in 1..MaxInstances}

Existing == {x \in AllInstances : x[2] <= Len(insts[x[1]])}

ClassLabel(a) == IF a = "cube" THEN CubeLabel ELSE CylinderLabel

\* The world point p in the surface's own frame: moved back by the surface's
\* position and turned back by its rotation (units of 1/RotScale^2).
ToSurface(p, surface) ==
  LET dx == p[1] - RotScale * surface.pos[1]
      dy == p[2] - RotScale * surface.pos[2]
  IN  << CosOf(surface.rot) * dx + SinOf(surface.rot) * dy,
         CosOf(surface.rot) * dy - SinOf(surface.rot) * dx >>

Abs(n) == IF n < 0 THEN -n ELSE n

\* p lies on the scatter surface as posed: within its extent along both of
\* the surface's own axes.
InBounds(p, surface) ==
  /\ Abs(ToSurface(p, surface)[1]) <= HalfExtentX * RotScale * RotScale
  /\ Abs(ToSurface(p, surface)[2]) <= HalfExtentY * RotScale * RotScale

\* C1: when main() has returned, the writer has written exactly the records
\* of frames 0..N-1, each once and in order, and none is still in flight.
C1_ExactlyNRecords ==
  MainReturned => written = FrameIndices(numFrames) /\ pending = <<>>

C1_Witness ==
  /\ MainReturned
  /\ numFrames >= 2
  /\ written = FrameIndices(numFrames)

\* C2: once the drain barrier has returned (and so whenever stop has been
\* issued), all N frames have been consumed, no record is in flight and all
\* N records are on disk.
C2_DrainAfterAllWrites ==
  (Occurred("drained") \/ stopCount > 0) =>
     /\ frame = numFrames
     /\ pending = <<>>
     /\ written = FrameIndices(numFrames)

C2_Witness ==
  /\ pc = "stop"
  /\ Occurred("drained")
  /\ numFrames >= 2
  /\ Len(written) = numFrames

\* C3 (as stated): on every exit path after the launch, close() has been
\* called exactly once when the program has exited; it is never called
\* twice, and it is the program's last step on the simulator.
C3_CloseOnEveryExit ==
  /\ closeCount <= 1
  /\ closeCount = 1 => pc = "exited"
  /\ pc = "exited" => closeCount = 1

\* C4 (as stated): the exit code is 0 exactly when main() completed without
\* raising.
C4_ExitCodeReflectsFault ==
  (pc = "exited" /\ mainCalled) => (exitCode = 0 <=> fault = NoFault)

\* The orchestration events of a complete run, in order.
FullRun == <<"run", "started_seen", "stopped_seen", "drained", "stop", "final_tick">>

C6_State ==
  /\ IsPrefix(events, FullRun)
  /\ runCount = (IF Occurred("run") THEN 1 ELSE 0)
  /\ stopCount = (IF Occurred("stop") THEN 1 ELSE 0)
  /\ Occurred("stopped_seen") => frame = numFrames
  /\ MainReturned => events = FullRun /\ bstate = "Stopped" /\ ~isStarted

\* The script moves on normally (no exception, not a step of the backend).
Moves == pc' \notin {pc, "except", "finally"}

C6_Step ==
  /\ Len(events') > Len(events) =>
       /\ Len(events') = Len(events) + 1
       /\ events'[Len(events')] = "started_seen" => isStarted
       /\ events'[Len(events')] = "stopped_seen" => ~isStarted
       /\ events'[Len(events')] = "drained" => pending = <<>>
       /\ events'[Len(events')] = "final_tick" =>
             pc = "final_update" /\ pc' = "update" /\ retpc' = "main_return"
  /\ (pc = "wait_started" /\ Moves) =>
       IF isStarted THEN pc' = "wait_stopped"
                    ELSE pc' = "update" /\ retpc' = "wait_started"
  /\ (pc = "wait_stopped" /\ Moves) =>
       IF isStarted THEN pc' = "update" /\ retpc' = "wait_stopped"
                    ELSE pc' = "wait_until_done"
  /\ (pc = "update" /\ Moves) => pc' = retpc

\* C6: the orchestration events occur in the order run, has-started seen
\* true, still-running seen false, drain, stop, final tick, each at most once
\* and none skipped; each poll iteration calls update() once and returns to
\* the loop test, and is entered only while its loop condition holds; the
\* final tick is the one update() after stop; after main() returns the
\* sequence is complete and the backend is idle.
C6_EventOrder == [](C6_State) /\ [][C6_Step]_vars

C6_Witness ==
  /\ MainReturned
  /\ events = FullRun
  /\ numFrames >= 2
  /\ written = FrameIndices(numFrames)
  /\ closeCount = 1

\* The rule names in the order main() registers them.
RegistrationOrder ==
  << "ground_color", "light_color", "light_intensity", "camera_pose",
     "tray_pose", "plane_pose",
     "cube_instantiate", "cube_pose", "cube_scatter", "cube_color",
     "cylinder_instantiate", "cylinder_pose", "cylinder_scatter", "cylinder_color" >>

\* C7: in every frame the rules run in registration order, each at most
\* once, and a frame is rendered only after all of them have run exactly
\* once; the scatter of each block follows the plane's pose.
C7_RulesInOrderBeforeRender ==
  /\ IsPrefix(execLog, RegistrationOrder)
  /\ frame > 0 => renderLog = RegistrationOrder
  /\ InLog(execLog, "cube_scatter") => InLog(execLog, "plane_pose")
  /\ InLog(execLog, "cylinder_scatter") => InLog(execLog, "plane_pose")

C7_Witness ==
  /\ frame = 2
  /\ renderLog = RegistrationOrder
  /\ rulePos = 0

\* C8: from the plane's pose rule of a frame until the next frame begins,
\* the tray and the plane have the same position and the same rotation.
C8_TrayAndPlaneTogether ==
  InLog(execLog, "plane_pose") =>
     /\ tray.pos = plane.pos
     /\ tray.rot = plane.rot

C8_Witness ==
  /\ InLog(execLog, "plane_pose")
  /\ frame = 1
  /\ rulePos > 0
  /\ plane.pos # NominalPlanePos
  /\ tray.pos = plane.pos

\* C9: every instance carries the label of its own class, and when a frame
\* is rendered every existing instance has been scattered in that frame.
C9_LabelledAndScattered ==
  \A x \in Existing :
     /\ insts[x[1]][x[2]].label = ClassLabel(x[1])
     /\ AtRender => insts[x[1]][x[2]].scattered

C9_Witness ==
  /\ AtRender
  /\ Len(insts["cube"]) >= 1
  /\ Len(insts["cylinder"]) >= 1
  /\ \A x \in Existing : insts[x[1]][x[2]].scattered

\* C10: when a frame is rendered every instance lies on the scatter surface
\* as posed (moved and rotated) in that frame, and no position was ever
\* re-drawn.
C10_ScatterWithinSurface ==
  /\ resamples = 0
  /\ AtRender => \A x \in Existing : InBounds(insts[x[1]][x[2]].pos, plane)

\* Two instances rendered at the same position, in the second frame, on a
\* surface that has been moved and rotated.
C10_Witness ==
  /\ AtRender
  /\ frame = 1
  /\ plane.rot # 0
  /\ plane.pos # NominalPlanePos
  /\ Overlap(insts)
  /\ \A x \in Existing : InBounds(insts[x[1]][x[2]].pos, plane)

====
